---- MODULE Spec2Model ----
(***************************************************************************)
(* Model of sgmlish: the reference-expansion engine (src/src/entities.rs)   *)
(* and the Display of attribute events (src/src/lib.rs).                    *)
(*                                                                         *)
(* Text is a sequence of Unicode scalar values (code points); byte lengths *)
(* are the UTF-8 lengths, as str::len reports them.                         *)
(***************************************************************************)
EXTENDS Integers, Sequences, FiniteSets

VARIABLES
    entry,      \* the public entry point that was called
    text,       \* the `text` argument of expand_entities_with
    remainder,  \* the local `remainder`: the unscanned suffix of text
    out,        \* the local `out`: the String being built
    calls,      \* the invocations of the closure f so far: name and reply
    hits,       \* the iterations of the while loop so far: where, and which arm
    pc,         \* "scan" inside the loop, "done" once the call has returned
    result,     \* the value returned by the call
    attr,       \* the SgmlEvent::Attribute being displayed
    shown,      \* what Display wrote for attr
    config,     \* the ParserConfig (or the NameNormalization, MarkedSectionHandling) in use
    arg,        \* the argument of the ParserConfig or Parser method that was called
    work,       \* the progress of that method
    ret         \* the value it returned

vars == <<entry, text, remainder, out, calls, hits, pc, result, attr, shown,
          config, arg, work, ret>>

----------------------------------------------------------------------------
(* Characters the code names. *)

AMP == 38

PERCENT == 37

HASH == 35

SEMI == 59

LOWER_X == 120

QUOT == 34

APOS == 39

EQUALS == 61

(* Bounds of the model. *)

MaxLen == 4

MaxNum == 3

MaxValLen == 3

----------------------------------------------------------------------------
(* Option<T> *)

None == [some |-> FALSE]

Some(v) == [some |-> TRUE, v |-> v]

(* str slicing *)

Take(s, n) == SubSeq(s, 1, n)

Drop(s, n) == SubSeq(s, n + 1, Len(s))

Utf8Len(c) == IF c < 128 THEN 1 ELSE IF c < 2048 THEN 2 ELSE IF c < 65536 THEN 3 ELSE 4

RECURSIVE ByteLen(_)
ByteLen(s) == IF s = <<>> THEN 0 ELSE Utf8Len(Head(s)) + ByteLen(Tail(s))

Contains(s, c) == \E i \in 1..Len(s) : s[i] = c

(* remainder.find(prefix): the index of the first occurrence, 0 for None *)
Find(s, p) ==
    IF Contains(s, p)
    THEN CHOOSE i \in 1..Len(s) : s[i] = p /\ \A j \in 1..(i - 1) : s[j] # p
    ELSE 0

(* take_while: how many leading characters satisfy P *)
TakeWhileLen(P(_), s) ==
    CHOOSE n \in 0..Len(s) :
        /\ \A i \in 1..n : P(s[i])
        /\ (n = Len(s) \/ ~P(s[n + 1]))

----------------------------------------------------------------------------
(* crate::parser::raw: name tokens *)

IsAsciiLetter(c) == c \in 65..90 \/ c \in 97..122

IsDigit(c) == c \in 48..57

is_name_start_char(c) == IsAsciiLetter(c)

is_name_char(c) == IsAsciiLetter(c) \/ IsDigit(c) \/ c = 46 \/ c = 45

(* name: one name-start character, then name characters; 0 when none *)
name(input) ==
    IF input # <<>> /\ is_name_start_char(input[1])
    THEN 1 + TakeWhileLen(is_name_char, Tail(input))
    ELSE 0

----------------------------------------------------------------------------
(* Numbers.  A u32 is kept as its two 16-bit halves, [hi, lo], so that the  *)
(* overflow of the 32-bit accumulator is the overflow the code sees.        *)

Half == 65536

DigitValue(c, radix) ==
    IF c \in 48..57 THEN c - 48
    ELSE IF radix = 16 /\ c \in 97..102 THEN c - 87
    ELSE IF radix = 16 /\ c \in 65..70 THEN c - 55
    ELSE -1

(* Variant: wrapping arithmetic instead of checked arithmetic. *)
MulAddWrapping(acc, radix, d) ==
    LET lo == acc.lo * radix + d
        hi == acc.hi * radix + (lo \div Half)
    IN  Some([hi |-> hi % Half, lo |-> lo % Half])

(* acc.checked_mul(radix)?.checked_add(d)? *)
MulAdd(acc, radix, d) ==
    LET lo == acc.lo * radix + d
        hi == acc.hi * radix + (lo \div Half)
    IN  IF hi >= Half THEN None ELSE Some([hi |-> hi, lo |-> lo % Half])

RECURSIVE ParseFrom(_, _, _)
ParseFrom(acc, s, radix) ==
    IF ~acc.some \/ s = <<>> THEN acc
    ELSE IF DigitValue(Head(s), radix) < 0 THEN None
    ELSE ParseFrom(MulAdd(acc.v, radix, DigitValue(Head(s), radix)), Tail(s), radix)

(* code.parse::<u32>().ok() on a run of ASCII digits *)
parse_u32(code) == ParseFrom(Some([hi |-> 0, lo |-> 0]), code, 10)

(* u32::from_str_radix(code, 16).ok() on a run of name characters *)
from_str_radix_16(code) == ParseFrom(Some([hi |-> 0, lo |-> 0]), code, 16)

(* char::from_u32: at most 0x10FFFF and no surrogate *)
char_from_u32(n) ==
    IF n.hi <= 16 /\ ~(n.hi = 0 /\ n.lo \in 55296..57343)
    THEN Some(n.hi * Half + n.lo)
    ELSE None

----------------------------------------------------------------------------
(* The matchers.  A match is [ok |-> FALSE], or [ok |-> TRUE, n, ref] where *)
(* n counts the characters of input the matcher consumed and ref is the     *)
(* EntityRef it produced.                                                   *)

NoMatch == [ok |-> FALSE]

Entity(nm) == [kind |-> "Entity", name |-> nm]

Char(c) == [kind |-> "Char", c |-> c]

Matched(n, ref) == [ok |-> TRUE, n |-> n, ref |-> ref]

(* Variant: either case of the marker. *)
IsHexMarkerAnyCase(c) == c = LOWER_X \/ c = 88

(* tag("x") of the hex alternative *)
IsHexMarker(c) == c = LOWER_X

(* the closure |(raw, code)| of char_ref *)
CharOrRaw(raw, code) ==
    IF code.some /\ char_from_u32(code.v).some
    THEN Char(char_from_u32(code.v).v)
    ELSE Entity(raw)

char_ref(input) ==
    IF input = <<>> \/ input[1] # HASH THEN NoMatch
    ELSE LET body == Tail(input)
             d    == TakeWhileLen(IsDigit, body)
         IN  IF d >= 1
             THEN Matched(1 + d, CharOrRaw(Take(input, 1 + d), parse_u32(Take(body, d))))
             ELSE IF body # <<>> /\ IsHexMarker(body[1])
                  THEN LET h == TakeWhileLen(is_name_char, Tail(body))
                       IN  IF h >= 1
                           THEN Matched(2 + h,
                                    CharOrRaw(Take(input, 2 + h),
                                              from_str_radix_16(Take(Tail(body), h))))
                           ELSE NoMatch
                  ELSE NoMatch

entity_ref(input) ==
    LET h == IF input # <<>> /\ input[1] = HASH THEN 1 ELSE 0
        n == name(Drop(input, h))
    IN  IF n >= 1 THEN Matched(h + n, Entity(Take(input, h + n))) ELSE NoMatch

entity_or_char_ref(input) ==
    IF char_ref(input).ok THEN char_ref(input) ELSE entity_ref(input)

(* Variant: the terminator is required. *)
TerminatedStrict(m, input) ==
    IF m.ok /\ Len(input) > m.n /\ input[m.n + 1] = SEMI
    THEN [m EXCEPT !.n = m.n + 1]
    ELSE NoMatch

(* Variant: every ';' after the reference is consumed. *)
TerminatedGreedy(m, input) ==
    IF m.ok
    THEN [m EXCEPT !.n = m.n + TakeWhileLen(LAMBDA c : c = SEMI, Drop(input, m.n))]
    ELSE m

(* terminated(matcher, opt(tag(";"))) *)
Terminated(m, input) ==
    IF m.ok /\ Len(input) > m.n /\ input[m.n + 1] = SEMI
    THEN [m EXCEPT !.n = m.n + 1]
    ELSE m

----------------------------------------------------------------------------
(* The entry points: trigger, matcher and closure of each. *)

Entries == {"expand_characters", "expand_entities", "expand_parameter_entities"}

Prefix(e) == IF e = "expand_parameter_entities" THEN PERCENT ELSE AMP

(* Variant: the general grammar for every entry point. *)
MatcherGeneral(e, input) == Terminated(entity_or_char_ref(input), input)

Matcher(e, input) ==
    IF e = "expand_parameter_entities"
    THEN Terminated(entity_ref(input), input)
    ELSE Terminated(entity_or_char_ref(input), input)

(* What a caller's closure may answer; expand_characters answers None, and *)
(* so does parse_rcdata when the configuration has no entity_fn.            *)
Replacements(e) == {<<>>, <<Prefix(e), LOWER_X, SEMI>>}

Replies(e) ==
    IF e = "expand_characters" \/ (e = "parse_rcdata" /\ ~config.entity_fn) THEN {None}
    ELSE {None} \cup {Some(r) : r \in Replacements(e)}

----------------------------------------------------------------------------
(* The inputs. *)

SeqsUpTo(A, n) == UNION {[1..k -> A] : k \in 0..n}

RECURSIVE Flatten(_)
Flatten(ss) == IF ss = <<>> THEN <<>> ELSE Head(ss) \o Flatten(Tail(ss))

(* trigger, '#', ';', 'x', '4', and U+2615 (three bytes, no name character) *)
Alphabet(e) == {Prefix(e), HASH, SEMI, LOWER_X, 52, 9749}

(* what may follow "&#": x, X, 4, D800, 110000, 4294967361 (2^32 + 65), ';', U+2615, trigger *)
NumChunks(e) ==
    { <<LOWER_X>>, <<88>>, <<52>>, <<68, 56, 48, 48>>, <<49, 49, 48, 48, 48, 48>>,
      <<52, 50, 57, 52, 57, 54, 55, 51, 54, 49>>, <<SEMI>>, <<9749>>, <<Prefix(e)>> }

Texts(e) ==
    SeqsUpTo(Alphabet(e), MaxLen)
        \cup {<<Prefix(e), HASH>> \o Flatten(b) : b \in SeqsUpTo(NumChunks(e), MaxNum)}

----------------------------------------------------------------------------
(* expand_entities_with *)

NoResult == [kind |-> "None"]

NoAttr == [name |-> <<>>, value |-> None]

Position == Find(remainder, Prefix(entry))

Mid == Take(remainder, Position - 1)

Candidate == Drop(remainder, Position - 1)

Match == Matcher(entry, Tail(Candidate))

After == Drop(Tail(Candidate), Match.n)

(* One iteration of the loop: the trigger's place in text as a character   *)
(* index (idx) and a byte offset (at), the last character consumed (stop)  *)
(* and the byte offset after it (end), the matcher's verdict (ref) and     *)
(* what the iteration pushed onto out after mid (emit).                    *)
Hit(ref, emit, after) ==
    [idx  |-> Len(text) - Len(Candidate) + 1,
     stop |-> Len(text) - Len(after),
     at   |-> ByteLen(text) - ByteLen(Candidate),
     end  |-> ByteLen(text) - ByteLen(after),
     ref  |-> ref,
     emit |-> emit]

Literal == [kind |-> "Literal"]

(* Variant: resume after the character that follows the trigger. *)
ResumePastCandidate(candidate) == Drop(candidate, 2)

(* &candidate[prefix.len()..] of the Err arm *)
Resume(candidate) == Drop(candidate, 1)

(* Variant: borrow whenever the scan changed nothing. *)
NothingChanged(rem, txt) == out \o rem = txt

(* remainder.len() == text.len() *)
NothingScanned(rem, txt) == ByteLen(rem) = ByteLen(txt)

(* Variant: the range measured in the output built so far. *)
EntityErrorInOutput(nm, after) ==
    [kind     |-> "Err",
     entity   |-> nm,
     position |-> <<ByteLen(out \o Mid),
                    ByteLen(out \o Mid) + ByteLen(Candidate) - ByteLen(after)>>]

EntityError(nm, after) ==
    [kind     |-> "Err",
     entity   |-> nm,
     position |-> <<ByteLen(text) - ByteLen(Candidate), ByteLen(text) - ByteLen(after)>>]

InitExpand ==
    /\ entry \in Entries
    /\ text \in Texts(entry)
    /\ remainder = text
    /\ out = <<>>
    /\ calls = <<>>
    /\ hits = <<>>
    /\ pc = "scan"
    /\ result = NoResult

(* Variant: a name that was looked up before reuses its first replacement. *)
StepEntityMemo ==
    /\ pc = "scan" /\ Position > 0
    /\ Match.ok /\ Match.ref.kind = "Entity"
    /\ IF \E j \in 1..Len(calls) : calls[j].name = Match.ref.name
       THEN LET first == CHOOSE j \in 1..Len(calls) :
                            /\ calls[j].name = Match.ref.name
                            /\ \A i \in 1..(j - 1) : calls[i].name # Match.ref.name
            IN  /\ calls' = calls
                /\ out' = out \o Mid \o calls[first].reply.v
                /\ hits' = Append(hits, Hit(Match.ref, calls[first].reply.v, After))
       ELSE \E r \in Replies(entry) :
                /\ r.some
                /\ calls' = Append(calls, [name |-> Match.ref.name, reply |-> r])
                /\ out' = out \o Mid \o r.v
                /\ hits' = Append(hits, Hit(Match.ref, r.v, After))
    /\ remainder' = After
    /\ UNCHANGED <<entry, text, pc, result, attr, shown, config, arg, work, ret>>

(* Variant: the replacement is put back in front of the text to scan. *)
StepEntityRescan ==
    /\ pc = "scan" /\ Position > 0
    /\ Match.ok /\ Match.ref.kind = "Entity"
    /\ \E r \in Replies(entry) :
        /\ r.some
        /\ calls' = Append(calls, [name |-> Match.ref.name, reply |-> r])
        /\ out' = out \o Mid
        /\ remainder' = r.v \o After
    /\ hits' = Append(hits, Hit(Match.ref, <<>>, After))
    /\ UNCHANGED <<entry, text, pc, result, attr, shown, config, arg, work, ret>>

(* Ok((after, EntityRef::Entity(name))) with f(name) = Some(r) *)
StepEntity ==
    /\ pc = "scan" /\ Position > 0
    /\ Match.ok /\ Match.ref.kind = "Entity"
    /\ \E r \in Replies(entry) :
        /\ r.some
        /\ calls' = Append(calls, [name |-> Match.ref.name, reply |-> r])
        /\ out' = out \o Mid \o r.v
    /\ remainder' = After
    /\ hits' = Append(hits, Hit(Match.ref, calls'[Len(calls')].reply.v, After))
    /\ UNCHANGED <<entry, text, pc, result, attr, shown, config, arg, work, ret>>

(* Ok((after, EntityRef::Entity(name))) with f(name) = None: `?` returns the error *)
StepEntityErr ==
    /\ pc = "scan" /\ Position > 0
    /\ Match.ok /\ Match.ref.kind = "Entity"
    /\ None \in Replies(entry)
    /\ calls' = Append(calls, [name |-> Match.ref.name, reply |-> None])
    /\ out' = out \o Mid
    /\ hits' = Append(hits, Hit(Match.ref, <<>>, After))
    /\ result' = EntityError(Match.ref.name, After)
    /\ pc' = "done"
    /\ UNCHANGED <<entry, text, remainder, attr, shown, config, arg, work, ret>>

(* Ok((after, EntityRef::Char(c))) *)
StepChar ==
    /\ pc = "scan" /\ Position > 0
    /\ Match.ok /\ Match.ref.kind = "Char"
    /\ out' = out \o Mid \o <<Match.ref.c>>
    /\ remainder' = After
    /\ hits' = Append(hits, Hit(Match.ref, <<Match.ref.c>>, After))
    /\ UNCHANGED <<entry, text, calls, pc, result, attr, shown, config, arg, work, ret>>

(* Err(_): the trigger is emitted and scanning resumes after it *)
StepLiteral ==
    /\ pc = "scan" /\ Position > 0
    /\ ~Match.ok
    /\ out' = out \o Mid \o <<Prefix(entry)>>
    /\ remainder' = Resume(Candidate)
    /\ hits' = Append(hits, Hit(Literal, <<Prefix(entry)>>, Resume(Candidate)))
    /\ UNCHANGED <<entry, text, calls, pc, result, attr, shown, config, arg, work, ret>>

(* the loop has ended and remainder.len() == text.len(): Ok(text.into()) *)
ReturnBorrowed ==
    /\ pc = "scan" /\ Position = 0
    /\ NothingScanned(remainder, text)
    /\ result' = [kind |-> "Borrowed", text |-> text]
    /\ pc' = "done"
    /\ UNCHANGED <<entry, text, remainder, out, calls, hits, attr, shown, config, arg, work, ret>>

(* the loop has ended after at least one iteration: Ok(out.into()) *)
ReturnOwned ==
    /\ pc = "scan" /\ Position = 0
    /\ ~NothingScanned(remainder, text)
    /\ out' = out \o remainder
    /\ result' = [kind |-> "Owned", text |-> out']
    /\ pc' = "done"
    /\ UNCHANGED <<entry, text, remainder, calls, hits, attr, shown, config, arg, work, ret>>

Next ==
    \/ StepEntity
    \/ StepEntityErr
    \/ StepChar
    \/ StepLiteral
    \/ ReturnBorrowed
    \/ ReturnOwned

(* no ParserConfig or Parser method is involved *)
NoMethod == config = "none" /\ arg = <<>> /\ work = 0 /\ ret = None

Init == InitExpand /\ attr = NoAttr /\ shown = None /\ NoMethod

Spec == Init /\ [][Next]_vars

(* no expansion is running *)
NoExpansion ==
    /\ remainder = <<>> /\ out = <<>> /\ calls = <<>> /\ hits = <<>>
    /\ pc = "idle" /\ result = NoResult
    /\ attr = NoAttr /\ shown = None

(* The same calls, begun by an action of their own. *)
InitIdle ==
    /\ entry = "none" /\ text = <<>>
    /\ NoExpansion /\ NoMethod

MaxCallLen == 3

(* trigger, '#', 'x', '4' *)
CallAlphabet(e) == {Prefix(e), HASH, LOWER_X, 52}

(* a caller calls one of the three functions on some text *)
Call ==
    /\ pc = "idle"
    /\ entry' \in Entries
    /\ text' \in SeqsUpTo(CallAlphabet(entry'), MaxCallLen)
    /\ remainder' = text'
    /\ pc' = "scan"
    /\ UNCHANGED <<out, calls, hits, result, attr, shown, config, arg, work, ret>>

NextCalled ==
    \/ Call
    \/ StepEntity
    \/ StepEntityErr
    \/ StepChar
    \/ StepLiteral
    \/ ReturnBorrowed
    \/ ReturnOwned

(* The call is synchronous: once begun, the loop keeps running until it *)
(* returns.                                                             *)
SpecFair == InitIdle /\ [][NextCalled]_vars /\ WF_vars(Next)

----------------------------------------------------------------------------
(* ParserConfig *)

(* impl Default for ParserConfig *)
DefaultConfig ==
    [trim_whitespace                |-> TRUE,
     name_normalization             |-> "Unchanged",
     marked_section_handling        |-> "AcceptOnlyCharacterData",
     ignore_markup_declarations     |-> FALSE,
     ignore_processing_instructions |-> FALSE,
     entity_fn                      |-> FALSE,
     parameter_entity_fn            |-> FALSE]

(* ParserBuilder::expand_entities *)
WithEntityFn(c) == [c EXCEPT !.entity_fn = TRUE]

(* ParserBuilder::trim_whitespace *)
WithTrim(c, b) == [c EXCEPT !.trim_whitespace = b]

(* Variant: text in which nothing was expanded stays replaceable data. *)
WrapDataIfExpanded(res) ==
    [variant |-> IF res.kind = "Borrowed" THEN "RcData" ELSE "CData",
     cow     |-> res.kind,
     s       |-> res.text]

(* .map(Data::CData) *)
WrapData(res) == [variant |-> "CData", cow |-> res.kind, s |-> res.text]

(* .map(Data::CData).map_err(From::from) *)
MapRcdata(res) ==
    IF res.kind = "Err"
    THEN [kind |-> "Err", error |-> [entity |-> res.entity, position |-> res.position]]
    ELSE [kind |-> "Ok", data |-> WrapData(res)]

InitRcdata ==
    /\ config \in {DefaultConfig, WithEntityFn(DefaultConfig)}
    /\ entry = "parse_rcdata"
    /\ text \in Texts(entry)
    /\ arg = text
    /\ remainder = text /\ out = <<>> /\ calls = <<>> /\ hits = <<>>
    /\ pc = "scan" /\ result = NoResult
    /\ work = 0 /\ ret = None
    /\ attr = NoAttr /\ shown = None

(* parse_rcdata returns what expand_entities returned, mapped *)
RcdataReturn ==
    /\ entry = "parse_rcdata" /\ pc = "done" /\ ~ret.some
    /\ ret' = Some(MapRcdata(result))
    /\ UNCHANGED <<entry, text, remainder, out, calls, hits, pc, result, attr, shown,
                    config, arg, work>>

NextRcdata ==
    \/ StepEntity
    \/ StepEntityErr
    \/ StepChar
    \/ StepLiteral
    \/ ReturnBorrowed
    \/ ReturnOwned
    \/ RcdataReturn

SpecRcdata == InitRcdata /\ [][NextRcdata]_vars

----------------------------------------------------------------------------
(* ParserConfig::trim *)

Reverse(s) == [i \in 1..Len(s) |-> s[Len(s) + 1 - i]]

(* Variant: char::is_ascii_whitespace, which also takes U+000C. *)
is_ascii_whitespace(c) == c \in {32, 9, 13, 10, 12}

(* matches!(c, ' ' | '\t' | '\r' | '\n') *)
is_sgml_whitespace(c) == c \in {32, 9, 13, 10}

(* str::trim_matches: the slice between the first and the last character *)
(* the pattern rejects, empty when it rejects none                       *)
trim_matches(s) ==
    LET i == TakeWhileLen(is_sgml_whitespace, s)
    IN  IF i = Len(s) THEN <<>>
        ELSE SubSeq(s, i + 1, Len(s) - TakeWhileLen(is_sgml_whitespace, Reverse(s)))

trim(c, t) == IF c.trim_whitespace THEN trim_matches(t) ELSE t

MaxTrimLen == 3

(* the characters of test_is_sgml_whitespace: ' ', tab, CR, LF, 'a', FF, NBSP *)
TrimAlphabet == {32, 9, 13, 10, 97, 12, 160}

InitTrim ==
    /\ config \in {WithTrim(DefaultConfig, b) : b \in BOOLEAN}
    /\ entry = "trim"
    /\ text \in SeqsUpTo(TrimAlphabet, MaxTrimLen)
    /\ arg = text
    /\ work = 0 /\ ret = None
    /\ NoExpansion

(* config.trim(text) *)
Trim ==
    /\ entry = "trim" /\ work = 0
    /\ ret' = Some(trim(config, arg))
    /\ work' = 1
    /\ UNCHANGED <<entry, text, remainder, out, calls, hits, pc, result, attr, shown,
                    config, arg>>

(* config.trim(config.trim(text)) *)
TrimAgain ==
    /\ entry = "trim" /\ work = 1
    /\ arg' = ret.v
    /\ ret' = Some(trim(config, ret.v))
    /\ work' = 2
    /\ UNCHANGED <<entry, text, remainder, out, calls, hits, pc, result, attr, shown,
                    config>>

NextTrim ==
    \/ Trim
    \/ TrimAgain

SpecTrim == InitTrim /\ [][NextTrim]_vars

----------------------------------------------------------------------------
(* NameNormalization::normalize *)

(* ParserBuilder::name_normalization *)
WithNormalization(c, m) == [c EXCEPT !.name_normalization = m]

(* enum NameNormalization *)
NameNormalizations == {"Unchanged", "ToLowercase", "ToUppercase"}

is_ascii_uppercase(c) == c \in 65..90

is_ascii_lowercase(c) == c \in 97..122

(* Variant: str::to_lowercase, which also folds U+00C9 to U+00E9. *)
to_lowercase(s) ==
    [i \in 1..Len(s) |->
        IF is_ascii_uppercase(s[i]) \/ s[i] = 201 THEN s[i] + 32 ELSE s[i]]

make_ascii_lowercase(s) ==
    [i \in 1..Len(s) |-> IF is_ascii_uppercase(s[i]) THEN s[i] + 32 ELSE s[i]]

make_ascii_uppercase(s) ==
    [i \in 1..Len(s) |-> IF is_ascii_lowercase(s[i]) THEN s[i] - 32 ELSE s[i]]

(* Cow::to_mut: a borrowed name is copied into an owned one *)
to_mut(n) == [n EXCEPT !.kind = "Owned"]

normalize(mode, n) ==
    IF mode = "ToLowercase" /\ \E i \in 1..Len(n.s) : is_ascii_uppercase(n.s[i])
    THEN [to_mut(n) EXCEPT !.s = make_ascii_lowercase(n.s)]
    ELSE IF mode = "ToUppercase" /\ \E i \in 1..Len(n.s) : is_ascii_lowercase(n.s[i])
         THEN [to_mut(n) EXCEPT !.s = make_ascii_uppercase(n.s)]
         ELSE n

MaxNameLen == 3

(* 'a', 'B', '-', U+00C9 (E acute, uppercase), U+00E9 (e acute, lowercase) *)
NameAlphabet == {97, 66, 45, 201, 233}

InitNormalize ==
    /\ config \in {WithNormalization(DefaultConfig, m) : m \in NameNormalizations}
    /\ entry = "normalize"
    /\ text \in SeqsUpTo(NameAlphabet, MaxNameLen) \ {<<>>}
    /\ arg \in {[kind |-> k, s |-> text] : k \in {"Borrowed", "Owned"}}
    /\ work = 0 /\ ret = None
    /\ NoExpansion

(* config.name_normalization.normalize(name) *)
Normalize ==
    /\ entry = "normalize" /\ work = 0
    /\ ret' = Some(normalize(config.name_normalization, arg))
    /\ work' = 1
    /\ UNCHANGED <<entry, text, remainder, out, calls, hits, pc, result, attr, shown,
                    config, arg>>

(* the result is normalized once more *)
NormalizeAgain ==
    /\ entry = "normalize" /\ work = 1
    /\ arg' = ret.v
    /\ ret' = Some(normalize(config.name_normalization, ret.v))
    /\ work' = 2
    /\ UNCHANGED <<entry, text, remainder, out, calls, hits, pc, result, attr, shown,
                    config>>

NextNormalize ==
    \/ Normalize
    \/ NormalizeAgain

SpecNormalize == InitNormalize /\ [][NextNormalize]_vars

----------------------------------------------------------------------------
(* MarkedSectionHandling::parse_keywords.  A keyword string is kept as the *)
(* sequence of its whitespace-separated keywords.                          *)

(* ParserBuilder::marked_section_handling *)
WithHandling(c, m) == [c EXCEPT !.marked_section_handling = m]

(* enum MarkedSectionHandling *)
MarkedSectionHandlings == {"KeepUnmodified", "AcceptOnlyCharacterData", "ExpandAll"}

Ok(v) == [ok |-> TRUE, v |-> v]

Err == [ok |-> FALSE]

(* the status one keyword denotes *)
StatusOf(k) ==
    CASE k = "CDATA"   -> Ok("CData")
      [] k = "RCDATA"  -> Ok("RcData")
      [] k = "IGNORE"  -> Ok("Ignore")
      [] k = "INCLUDE" -> Ok("Include")
      [] k = "TEMP"    -> Ok("Include")
      [] OTHER         -> Err

(* str::parse::<MarkedSectionStatus>: the string is one keyword *)
from_str(kws) == IF Len(kws) = 1 THEN StatusOf(kws[1]) ELSE Err

(* the status that prevails: IGNORE, then CDATA, then RCDATA, then INCLUDE *)
Prevailing(S) ==
    IF "Ignore" \in S THEN "Ignore"
    ELSE IF "CData" \in S THEN "CData"
    ELSE IF "RcData" \in S THEN "RcData"
    ELSE "Include"

(* MarkedSectionStatus::from_keywords: every keyword must be known *)
from_keywords(kws) ==
    IF \E i \in 1..Len(kws) : ~StatusOf(kws[i]).ok THEN Err
    ELSE Ok(Prevailing({StatusOf(kws[i]).v : i \in 1..Len(kws)}))

(* Result::ok *)
ok(r) == IF r.ok THEN Some(r.v) ELSE None

(* Variant: the strict mode resolves the keywords as the other modes do *)
(* and then keeps the character-data statuses.                          *)
parse_keywords_resolved(mode, status_keywords) ==
    IF mode = "AcceptOnlyCharacterData"
    THEN LET r == from_keywords(status_keywords)
         IN  IF r.ok /\ r.v \in {"CData", "RcData"} THEN Some(r.v) ELSE None
    ELSE ok(from_keywords(status_keywords))

parse_keywords(mode, status_keywords) ==
    IF mode = "AcceptOnlyCharacterData"
    THEN LET r == from_str(status_keywords)
         IN  IF r.ok /\ r.v \in {"CData", "RcData"} THEN Some(r.v) ELSE None
    ELSE ok(from_keywords(status_keywords))

MaxKeywords == 2

Keywords == {"CDATA", "RCDATA", "INCLUDE", "IGNORE", "TEMP", "FOO"}

InitKeywords ==
    /\ config \in {WithHandling(DefaultConfig, m) : m \in MarkedSectionHandlings}
    /\ entry = "parse_keywords"
    /\ arg \in SeqsUpTo(Keywords, MaxKeywords)
    /\ text = <<>>
    /\ work = 0 /\ ret = None
    /\ NoExpansion

(* config.marked_section_handling.parse_keywords(status_keywords) *)
ParseKeywords ==
    /\ entry = "parse_keywords" /\ work = 0
    /\ ret' = Some(parse_keywords(config.marked_section_handling, arg))
    /\ work' = 1
    /\ UNCHANGED <<entry, text, remainder, out, calls, hits, pc, result, attr, shown,
                    config, arg>>

NextKeywords ==
    \/ ParseKeywords

SpecKeywords == InitKeywords /\ [][NextKeywords]_vars

----------------------------------------------------------------------------
(* Parser::parse.  The input is kept as the sequence of its top-level      *)
(* constructs: a tag, character data, character data with a reference      *)
(* that does not resolve, a comment, and text that is no construct at all. *)

Constructs == {"tag", "text", "badref", "comment", "junk"}

MaxItems == 3

(* the events one construct is classified into *)
EventsOf(c) ==
    CASE c = "tag"     -> <<"OpenStartTag", "CloseStartTag">>
      [] c = "text"    -> <<"Character">>
      [] c = "comment" -> <<>>
      [] OTHER         -> <<>>

InitParse ==
    /\ config = DefaultConfig
    /\ entry = "parse"
    /\ text \in SeqsUpTo(Constructs, MaxItems)
    /\ arg = text
    /\ remainder = text /\ out = <<>> /\ calls = <<>> /\ hits = <<>>
    /\ pc = "tokenize" /\ result = NoResult
    /\ work = 0 /\ ret = None
    /\ attr = NoAttr /\ shown = None

(* document_entity: the next construct is classified *)
TokenizeItem ==
    /\ entry = "parse" /\ pc = "tokenize"
    /\ remainder # <<>> /\ Head(remainder) \in {"tag", "text", "comment"}
    /\ out' = out \o EventsOf(Head(remainder))
    /\ remainder' = Tail(remainder)
    /\ UNCHANGED <<entry, text, calls, hits, pc, result, attr, shown,
                    config, arg, work, ret>>

(* document_entity: a reference in the character data does not resolve *)
TokenizeFail ==
    /\ entry = "parse" /\ pc = "tokenize"
    /\ remainder # <<>> /\ Head(remainder) = "badref"
    /\ result' = [kind |-> "Err", error |-> "reference", at |-> Len(text) - Len(remainder)]
    /\ pc' = "tokenized"
    /\ UNCHANGED <<entry, text, remainder, out, calls, hits, attr, shown,
                    config, arg, work, ret>>

(* document_entity is all_consuming: no construct starts here, which is *)
(* the end of a classified input and an error anywhere else             *)
TokenizeEnd ==
    /\ entry = "parse" /\ pc = "tokenize"
    /\ IF remainder = <<>> THEN TRUE ELSE Head(remainder) = "junk"
    /\ result' = IF remainder = <<>>
                 THEN [kind |-> "Ok", rest |-> remainder, events |-> out]
                 ELSE [kind |-> "Err", error |-> "leftover",
                       at |-> Len(text) - Len(remainder)]
    /\ pc' = "tokenized"
    /\ UNCHANGED <<entry, text, remainder, out, calls, hits, attr, shown,
                    config, arg, work, ret>>

(* Variant: on an error the events classified so far are returned. *)
ParseOutcomesLenient(input, r, sofar) ==
    IF r.kind = "Err"
    THEN {[kind |-> "Ok", events |-> sofar]}
    ELSE {[kind |-> "Ok", events |-> r.events]}

(* parse_with_error_type after document_entity returned r; the           *)
(* debug_assert panics in a debug build and is absent in a release build *)
ParseOutcomes(input, r, sofar) ==
    IF r.kind = "Err"
    THEN {[kind |-> "Err", input |-> input, error |-> r.error, at |-> r.at]}
    ELSE IF r.rest # <<>>
         THEN {[kind |-> "Panic"], [kind |-> "Ok", events |-> r.events]}
         ELSE {[kind |-> "Ok", events |-> r.events]}

ParseReturn ==
    /\ entry = "parse" /\ pc = "tokenized" /\ ~ret.some
    /\ \E o \in ParseOutcomes(text, result, out) : ret' = Some(o)
    /\ UNCHANGED <<entry, text, remainder, out, calls, hits, pc, result, attr, shown,
                    config, arg, work>>

NextParse ==
    \/ TokenizeItem
    \/ TokenizeFail
    \/ TokenizeEnd
    \/ ParseReturn

SpecParse == InitParse /\ [][NextParse]_vars

----------------------------------------------------------------------------
(* impl fmt::Display for SgmlEvent, the Attribute arm *)

(* Data::verbatim *)
verbatim(data) == data.variant = "CData"

(* Data::as_str *)
as_str(data) == data.s

(* Variant: the variant of the data is not consulted. *)
escape_ampersand_any(data) == Contains(as_str(data), AMP)

escape_ampersand(data) == verbatim(data) /\ Contains(as_str(data), AMP)

(* the closure of value.chars().try_for_each *)
EscapeChar(c, esc) ==
    IF c = QUOT THEN <<AMP, HASH, 51, 52, SEMI>>
    ELSE IF c = AMP /\ esc THEN <<AMP, HASH, 51, 56, SEMI>>
    ELSE <<c>>

RECURSIVE EscapeChars(_, _)
EscapeChars(s, esc) ==
    IF s = <<>> THEN <<>> ELSE EscapeChar(Head(s), esc) \o EscapeChars(Tail(s), esc)

(* 'a', '&', '"', '\'' *)
ValueAlphabet == {97, AMP, QUOT, APOS}

Values ==
    {None} \cup {Some([variant |-> v, s |-> s]) :
                    v \in {"CData", "RcData"}, s \in SeqsUpTo(ValueAlphabet, MaxValLen)}

(* "key" *)
Names == {<<107, 101, 121>>}

InitDisplay ==
    /\ attr \in {[name |-> n, value |-> v] : n \in Names, v \in Values}
    /\ shown = None
    /\ entry = "none" /\ text = <<>> /\ remainder = <<>> /\ out = <<>>
    /\ calls = <<>> /\ hits = <<>> /\ pc = "idle" /\ result = NoResult
    /\ NoMethod

(* None => return Ok(()) after the name *)
FmtNoValue ==
    /\ shown = None /\ attr # NoAttr
    /\ ~attr.value.some
    /\ shown' = Some(attr.name)
    /\ UNCHANGED <<attr, entry, text, remainder, out, calls, hits, pc, result,
                    config, arg, work, ret>>

(* write!(f, "=\"{}\"", value) *)
FmtDoubleQuoted ==
    /\ shown = None /\ attr # NoAttr
    /\ attr.value.some
    /\ ~escape_ampersand(attr.value.v) /\ ~Contains(as_str(attr.value.v), QUOT)
    /\ shown' = Some(attr.name \o <<EQUALS, QUOT>> \o as_str(attr.value.v) \o <<QUOT>>)
    /\ UNCHANGED <<attr, entry, text, remainder, out, calls, hits, pc, result,
                    config, arg, work, ret>>

(* write!(f, "='{}'", value) *)
FmtSingleQuoted ==
    /\ shown = None /\ attr # NoAttr
    /\ attr.value.some
    /\ ~(~escape_ampersand(attr.value.v) /\ ~Contains(as_str(attr.value.v), QUOT))
    /\ ~escape_ampersand(attr.value.v) /\ ~Contains(as_str(attr.value.v), APOS)
    /\ shown' = Some(attr.name \o <<EQUALS, APOS>> \o as_str(attr.value.v) \o <<APOS>>)
    /\ UNCHANGED <<attr, entry, text, remainder, out, calls, hits, pc, result,
                    config, arg, work, ret>>

(* the else arm: written between '"', character by character *)
FmtEscaped ==
    /\ shown = None /\ attr # NoAttr
    /\ attr.value.some
    /\ ~(~escape_ampersand(attr.value.v) /\ ~Contains(as_str(attr.value.v), QUOT))
    /\ ~(~escape_ampersand(attr.value.v) /\ ~Contains(as_str(attr.value.v), APOS))
    /\ shown' = Some(attr.name \o <<EQUALS, QUOT>>
                        \o EscapeChars(as_str(attr.value.v), escape_ampersand(attr.value.v))
                        \o <<QUOT>>)
    /\ UNCHANGED <<attr, entry, text, remainder, out, calls, hits, pc, result,
                    config, arg, work, ret>>

NextDisplay ==
    \/ FmtNoValue
    \/ FmtDoubleQuoted
    \/ FmtSingleQuoted
    \/ FmtEscaped

SpecDisplay == InitDisplay /\ [][NextDisplay]_vars

----------------------------------------------------------------------------
(* Properties of the expansion. *)

Returned == pc = "done"

ReturnedOk == pc = "done" /\ result.kind \in {"Borrowed", "Owned"}

Trigger == Prefix(entry)

TriggerPositions == {i \in 1..Len(text) : text[i] = Trigger}

(* the byte offset of the i-th character of text *)
ByteOffset(i) == ByteLen(Take(text, i - 1))

(* C1: the call returns the input borrowed if and only if the trigger does *)
(* not occur in the input, and then the lookup was never invoked; when the *)
(* trigger occurs and the call succeeds the result is an owned text.       *)
C1_BorrowedIffNoTrigger ==
    Returned =>
        /\ (result.kind = "Borrowed") <=> (TriggerPositions = {})
        /\ result.kind = "Borrowed" => result.text = text /\ calls = <<>>
        /\ (TriggerPositions # {} /\ result.kind # "Err") => result.kind = "Owned"

(* an owned result whose content equals the input *)
C1_Witness ==
    /\ Returned /\ result.kind = "Owned"
    /\ result.text = text
    /\ TriggerPositions # {}

(* no trigger of the input is followed by text the grammar matches *)
NoReferenceAnywhere ==
    \A i \in TriggerPositions : ~Matcher(entry, Drop(text, i)).ok

(* C2: when no trigger is followed by a reference, expansion succeeds with *)
(* text equal to the input and without a lookup; a failed match consumes   *)
(* the trigger alone, and every trigger of a successfully expanded input   *)
(* is examined, the ones inside a failed candidate included.               *)
C2_UnmatchedTriggerKept ==
    /\ (Returned /\ NoReferenceAnywhere) =>
            /\ result.kind \in {"Borrowed", "Owned"}
            /\ result.text = text
            /\ calls = <<>>
    /\ \A k \in 1..Len(hits) :
            hits[k].ref.kind = "Literal" =>
                /\ hits[k].stop = hits[k].idx
                /\ hits[k].emit = <<Trigger>>
    /\ ReturnedOk =>
            \A i \in TriggerPositions : \E k \in 1..Len(hits) : hits[k].idx = i

(* "&&x": the second trigger, inside the failed candidate, is a reference *)
C2_Witness ==
    /\ ReturnedOk
    /\ \E k \in 1..(Len(hits) - 1) :
            /\ hits[k].ref.kind = "Literal"
            /\ hits[k + 1].ref.kind = "Entity"
            /\ hits[k + 1].idx = hits[k].idx + 1

----------------------------------------------------------------------------
(* Numeric character references, read off the input text. *)

IsHexDigit(c) == c \in 48..57 \/ c \in 97..102 \/ c \in 65..70

IsZero(c) == c = 48

HexDigitValue(c) == IF c \in 48..57 THEN c - 48 ELSE IF c \in 97..102 THEN c - 87 ELSE c - 55

RECURSIVE PlainValue(_, _)
PlainValue(s, radix) ==
    IF s = <<>> THEN 0
    ELSE PlainValue(Take(s, Len(s) - 1), radix) * radix + HexDigitValue(s[Len(s)])

(* the Unicode scalar value a digit string denotes, -1 when it denotes none *)
ScalarCode(s, radix) ==
    LET sig == Drop(s, TakeWhileLen(IsZero, s))
    IN  IF Len(sig) > 7 THEN -1
        ELSE IF PlainValue(sig, radix) <= 1114111 /\ PlainValue(sig, radix) \notin 55296..57343
             THEN PlainValue(sig, radix)
             ELSE -1

(* the text after the trigger of the k-th iteration *)
Rest(k) == Drop(text, hits[k].idx)

StartsWith(s, p) == Len(s) >= Len(p) /\ Take(s, Len(p)) = p

(* the decimal digits after "#", and the hex digits after "#" and marker *)
DecDigits(rest) ==
    IF StartsWith(rest, <<HASH>>) THEN Take(Tail(rest), TakeWhileLen(IsDigit, Tail(rest))) ELSE <<>>

HexDigits(rest, marker) ==
    IF StartsWith(rest, <<HASH, marker>>)
    THEN Take(Drop(rest, 2), TakeWhileLen(IsHexDigit, Drop(rest, 2)))
    ELSE <<>>

(* the name characters after "#" and marker *)
NameRun(rest, marker) ==
    IF StartsWith(rest, <<HASH, marker>>)
    THEN Take(Drop(rest, 2), TakeWhileLen(is_name_char, Drop(rest, 2)))
    ELSE <<>>

GeneralEntry == entry \in {"expand_characters", "expand_entities"}

(* the k-th iteration replaced n characters after the trigger, and one ';' *)
(* if it follows them, by the character c                                  *)
ReplacedByChar(k, n, c) ==
    /\ hits[k].ref = Char(c)
    /\ hits[k].emit = <<c>>
    /\ hits[k].stop = hits[k].idx + n
                        + (IF Len(Rest(k)) > n /\ Rest(k)[n + 1] = SEMI THEN 1 ELSE 0)

(* the output is the input with every examined span replaced by what its   *)
(* iteration emitted                                                       *)
RECURSIVE Rebuild(_, _)
Rebuild(k, pos) ==
    IF k > Len(hits) THEN SubSeq(text, pos, Len(text))
    ELSE SubSeq(text, pos, hits[k].idx - 1) \o hits[k].emit \o Rebuild(k + 1, hits[k].stop + 1)

(* the invocation of the lookup made by the k-th iteration *)
CallOf(k) == calls[Cardinality({j \in 1..k : hits[j].ref.kind = "Entity"})]

DecimalCharRef(k) ==
    /\ DecDigits(Rest(k)) # <<>>
    /\ ScalarCode(DecDigits(Rest(k)), 10) >= 0

HexCharRef(k, marker) ==
    /\ HexDigits(Rest(k), marker) # <<>>
    /\ ScalarCode(HexDigits(Rest(k), marker), 16) >= 0

(* C3 as stated: every "&#" + digits and every "&#x" + hex digits with a   *)
(* valid code is replaced by that character, with or without a ';'.        *)
C3_EveryNumericReferenceResolved ==
    GeneralEntry =>
        \A k \in 1..Len(hits) :
            /\ DecimalCharRef(k) =>
                    ReplacedByChar(k, 1 + Len(DecDigits(Rest(k))),
                                   ScalarCode(DecDigits(Rest(k)), 10))
            /\ HexCharRef(k, LOWER_X) =>
                    ReplacedByChar(k, 2 + Len(HexDigits(Rest(k), LOWER_X)),
                                   ScalarCode(HexDigits(Rest(k), LOWER_X), 16))

(* C3, amended: a decimal reference with a valid code, and a hex reference *)
(* with a valid code whose digits are not followed by a further name       *)
(* character, is replaced by exactly that character without a lookup, with *)
(* or without a ';'; what follows the reference is kept in the output.     *)
C3_NumericReferenceResolved ==
    GeneralEntry =>
        /\ \A k \in 1..Len(hits) :
            /\ DecimalCharRef(k) =>
                    ReplacedByChar(k, 1 + Len(DecDigits(Rest(k))),
                                   ScalarCode(DecDigits(Rest(k)), 10))
            /\ (HexCharRef(k, LOWER_X)
                    /\ NameRun(Rest(k), LOWER_X) = HexDigits(Rest(k), LOWER_X)) =>
                    ReplacedByChar(k, 2 + Len(HexDigits(Rest(k), LOWER_X)),
                                   ScalarCode(HexDigits(Rest(k), LOWER_X), 16))
        /\ Len(calls) = Cardinality({k \in 1..Len(hits) : hits[k].ref.kind = "Entity"})
        /\ (Returned /\ result.kind = "Owned") => result.text = Rebuild(1, 1)

(* a hex reference without ';' was replaced, and the next character kept *)
C3_Witness ==
    /\ ReturnedOk /\ GeneralEntry
    /\ \E k \in 1..Len(hits) :
            /\ HexCharRef(k, LOWER_X)
            /\ hits[k].ref.kind = "Char"
            /\ hits[k].stop < Len(text)
            /\ text[hits[k].stop] # SEMI
            /\ result.text = Take(text, hits[k].idx - 1) \o hits[k].emit
                                \o Drop(text, hits[k].stop)

(* C4 as stated: "&#XH;" resolves to the character that "&#xH;" denotes. *)
C4_UppercaseMarkerResolved ==
    GeneralEntry =>
        \A k \in 1..Len(hits) :
            (HexCharRef(k, 88) /\ NameRun(Rest(k), 88) = HexDigits(Rest(k), 88)) =>
                ReplacedByChar(k, 2 + Len(HexDigits(Rest(k), 88)),
                               ScalarCode(HexDigits(Rest(k), 88), 16))

(* C4, amended: only the lowercase marker introduces the hex form; "&#XH"  *)
(* is never resolved to a character: it is a named reference and the       *)
(* lookup is invoked with "#XH".                                           *)
C4_UppercaseMarkerIsNamed ==
    GeneralEntry =>
        \A k \in 1..Len(hits) :
            StartsWith(Rest(k), <<HASH, 88>>) =>
                /\ hits[k].ref = Entity(<<HASH, 88>> \o NameRun(Rest(k), 88))
                /\ CallOf(k).name = <<HASH, 88>> \o NameRun(Rest(k), 88)

(* "&#X4;" went to the lookup while hex digits with a valid code followed *)
C4_Witness ==
    /\ GeneralEntry
    /\ \E k \in 1..Len(hits) :
            /\ HexCharRef(k, 88)
            /\ NameRun(Rest(k), 88) = HexDigits(Rest(k), 88)
            /\ hits[k].stop = hits[k].idx + 2 + Len(HexDigits(Rest(k), 88)) + 1
            /\ text[hits[k].stop] = SEMI
            /\ CallOf(k).name = <<HASH, 88>> \o HexDigits(Rest(k), 88)

(* the raw text "#..." that the k-th iteration must hand to the lookup:    *)
(* an invalid decimal code, "#x" + name characters that are no valid hex   *)
(* code, or '#' and a name that is no numeric form; <<>> otherwise         *)
RawMalformed(k) ==
    LET rest == Rest(k)
    IN  IF DecDigits(rest) # <<>>
        THEN IF ScalarCode(DecDigits(rest), 10) < 0
             THEN <<HASH>> \o DecDigits(rest) ELSE <<>>
        ELSE IF NameRun(rest, LOWER_X) # <<>>
        THEN IF NameRun(rest, LOWER_X) = HexDigits(rest, LOWER_X)
                    /\ ScalarCode(HexDigits(rest, LOWER_X), 16) >= 0
             THEN <<>> ELSE <<HASH, LOWER_X>> \o NameRun(rest, LOWER_X)
        ELSE IF StartsWith(rest, <<HASH>>) /\ name(Tail(rest)) > 0
        THEN Take(rest, 1 + name(Tail(rest)))
        ELSE <<>>

(* C5: an invalid numeric code (out of range, surrogate, wider than 32     *)
(* bits) and a '#'-prefixed non-numeric name are handed to the lookup as   *)
(* the raw captured text with its '#'; the replacement is used if there is *)
(* one, and otherwise expansion fails with that text as the error's name.  *)
C5_MalformedCharRefGoesToLookup ==
    GeneralEntry =>
        \A k \in 1..Len(hits) :
            RawMalformed(k) # <<>> =>
                /\ hits[k].ref = Entity(RawMalformed(k))
                /\ CallOf(k).name = RawMalformed(k)
                /\ CallOf(k).reply.some => hits[k].emit = CallOf(k).reply.v
                /\ ~CallOf(k).reply.some =>
                        /\ Returned /\ result.kind = "Err"
                        /\ result.entity = RawMalformed(k)

(* "&#4294967361" (2^32 + 65) failed with "#4294967361" as the name *)
C5_Witness ==
    /\ GeneralEntry /\ Returned /\ result.kind = "Err"
    /\ result.entity = <<HASH, 52, 50, 57, 52, 57, 54, 55, 51, 54, 49>>

(* C6: the error names the captured name, and its position is the byte     *)
(* range in the input from the trigger through the name and the ';' that   *)
(* follows it, if one does.                                                *)
C6_ErrorNameAndPosition ==
    (Returned /\ result.kind = "Err") =>
        LET i  == hits[Len(hits)].idx
            nm == result.entity
            e  == i + Len(nm)
        IN  /\ calls[Len(calls)] = [name |-> nm, reply |-> None]
            /\ nm # <<>> /\ ~Contains(nm, SEMI) /\ ~Contains(nm, Trigger)
            /\ text[i] = Trigger
            /\ SubSeq(text, i + 1, e) = nm
            /\ result.position[1] = ByteOffset(i)
            /\ result.position[2] =
                    ByteOffset(i) + 1 + ByteLen(nm)
                        + (IF Len(text) > e /\ text[e + 1] = SEMI THEN 1 ELSE 0)

(* an error after an earlier replacement that changed the length *)
C6_Witness ==
    /\ Returned /\ result.kind = "Err"
    /\ Len(calls) >= 2
    /\ ByteLen(out) # result.position[1]

(* the k-th iteration replaced a named reference by the lookup's answer:   *)
(* the span is the trigger, the name and one ';' if one follows            *)
NamedSpan(k) ==
    LET i  == hits[k].idx
        nm == hits[k].ref.name
        e  == i + Len(nm)
    IN  /\ hits[k].emit = CallOf(k).reply.v
        /\ SubSeq(text, i + 1, e) = nm
        /\ hits[k].stop = e + (IF Len(text) > e /\ text[e + 1] = SEMI THEN 1 ELSE 0)

(* the character after the k-th span, when the span has no ';' *)
Unterminated(k) == hits[k].stop < Len(text) /\ text[hits[k].stop] # SEMI

Replaced(k) == hits[k].ref.kind = "Entity" /\ CallOf(k).reply.some

(* C7 as stated: the replacement stands in place of the span, the rest is  *)
(* copied, and a reference without ';' ends before the first character     *)
(* that is no name character.                                              *)
C7_EveryNameEndsAtNonNameChar ==
    /\ \A k \in 1..Len(hits) :
            Replaced(k) =>
                /\ NamedSpan(k)
                /\ Unterminated(k) => ~is_name_char(text[hits[k].stop + 1])
    /\ (Returned /\ result.kind = "Owned") => result.text = Rebuild(1, 1)

(* C7, amended: as stated, except that an invalid decimal code handed to   *)
(* the lookup ends before the first character that is no digit.            *)
C7_ReplacementInPlaceOfSpan ==
    /\ \A k \in 1..Len(hits) :
            Replaced(k) =>
                /\ NamedSpan(k)
                /\ (Unterminated(k) /\ DecDigits(Rest(k)) = <<>>) =>
                        ~is_name_char(text[hits[k].stop + 1])
                /\ (Unterminated(k) /\ DecDigits(Rest(k)) # <<>>) =>
                        ~IsDigit(text[hits[k].stop + 1])
    /\ (Returned /\ result.kind = "Owned") => result.text = Rebuild(1, 1)

(* "&x;;": the replacement, then the second ';' *)
C7_Witness ==
    /\ ReturnedOk
    /\ \E k \in 1..Len(hits) :
            /\ Replaced(k) /\ hits[k].emit # <<>>
            /\ hits[k].stop < Len(text)
            /\ text[hits[k].stop] = SEMI /\ text[hits[k].stop + 1] = SEMI
            /\ result.text = Take(text, hits[k].idx - 1) \o hits[k].emit
                                \o Drop(text, hits[k].stop)

(* the names of the named references of the input from character i on, in  *)
(* the order of their triggers                                             *)
RECURSIVE NamedFrom(_)
NamedFrom(i) ==
    IF i > Len(text) THEN <<>>
    ELSE IF text[i] = Trigger /\ Matcher(entry, Drop(text, i)).ok
                /\ Matcher(entry, Drop(text, i)).ref.kind = "Entity"
         THEN <<Matcher(entry, Drop(text, i)).ref.name>> \o NamedFrom(i + 1)
         ELSE NamedFrom(i + 1)

CallNames == [j \in 1..Len(calls) |-> calls[j].name]

(* C8: the lookup is invoked once per named reference, in the order of the *)
(* input, never for a character reference or an unmatched trigger; only    *)
(* the last invocation can return nothing, and then the call has returned  *)
(* the error.                                                              *)
C8_OneLookupPerOccurrence ==
    /\ Len(calls) <= Len(NamedFrom(1))
    /\ CallNames = Take(NamedFrom(1), Len(calls))
    /\ ReturnedOk => Len(calls) = Len(NamedFrom(1))
    /\ \A j \in 1..Len(calls) :
            ~calls[j].reply.some =>
                /\ j = Len(calls)
                /\ Returned /\ result.kind = "Err" /\ result.entity = calls[j].name
    /\ (Returned /\ result.kind = "Err") => ~calls[Len(calls)].reply.some

(* the same name looked up twice, with two different answers *)
C8_Witness ==
    /\ ReturnedOk
    /\ \E i, j \in 1..Len(calls) :
            i < j /\ calls[i].name = calls[j].name /\ calls[i].reply # calls[j].reply

ParameterEntry == entry = "expand_parameter_entities"

(* C9 as stated: '%' + '#' + digits, or + 'x' + hex digits, is untouched. *)
C9_NumericFormsUntouched ==
    ParameterEntry =>
        \A k \in 1..Len(hits) :
            (DecDigits(Rest(k)) # <<>> \/ HexDigits(Rest(k), LOWER_X) # <<>>) =>
                /\ hits[k].ref = Literal
                /\ hits[k].stop = hits[k].idx

(* C9, amended: no '%' reference becomes a character; '%' + '#' + decimal  *)
(* digits is left untouched without a lookup; '%' + "#x" + name characters *)
(* is the named reference "#x...", handed to the lookup.                   *)
C9_NoCharacterReferences ==
    ParameterEntry =>
        /\ \A k \in 1..Len(hits) :
            /\ hits[k].ref.kind # "Char"
            /\ DecDigits(Rest(k)) # <<>> =>
                    /\ hits[k].ref = Literal
                    /\ hits[k].stop = hits[k].idx
                    /\ hits[k].emit = <<Trigger>>
            /\ StartsWith(Rest(k), <<HASH, LOWER_X>>) =>
                    /\ hits[k].ref = Entity(<<HASH, LOWER_X>> \o NameRun(Rest(k), LOWER_X))
                    /\ CallOf(k).name = hits[k].ref.name
        /\ (Returned /\ \A i \in TriggerPositions : DecDigits(Drop(text, i)) # <<>>) =>
                /\ result.kind \in {"Borrowed", "Owned"}
                /\ result.text = text
                /\ calls = <<>>

(* "%#x4": hex digits after "%#x", and the expansion failed on "#x4" *)
C9_Witness ==
    /\ ParameterEntry /\ Returned /\ result.kind = "Err"
    /\ HexDigits(Rest(Len(hits)), LOWER_X) # <<>>
    /\ result.entity = <<HASH, LOWER_X>> \o HexDigits(Rest(Len(hits)), LOWER_X)

----------------------------------------------------------------------------
(* Properties of the display of attributes. *)

RECURSIVE Written(_, _)
Written(v, amp) ==
    IF v = <<>> THEN <<>>
    ELSE (CASE Head(v) = QUOT        -> <<AMP, HASH, 51, 52, SEMI>>
            [] Head(v) = AMP /\ amp  -> <<AMP, HASH, 51, 56, SEMI>>
            [] OTHER                 -> <<Head(v)>>) \o Written(Tail(v), amp)

(* C10: '&' is written "&#38;" exactly for a CData value that contains it; *)
(* the value is written as it is between '"' if that needs no escaping,    *)
(* else between "'" if that needs none, else between '"' with '"' written  *)
(* "&#34;"; the delimiter never occurs between the delimiters; without a   *)
(* value the name alone is written.                                        *)
C10_AttributeDisplay ==
    shown.some =>
        IF ~attr.value.some THEN shown.v = attr.name
        ELSE LET v    == attr.value.v.s
                 amp  == attr.value.v.variant = "CData" /\ Contains(v, AMP)
                 d    == IF ~amp /\ ~Contains(v, QUOT) THEN QUOT
                         ELSE IF ~amp /\ ~Contains(v, APOS) THEN APOS
                         ELSE QUOT
                 body == IF ~amp /\ (~Contains(v, QUOT) \/ ~Contains(v, APOS))
                         THEN v ELSE Written(v, amp)
             IN  /\ shown.v = attr.name \o <<EQUALS, d>> \o body \o <<d>>
                 /\ ~Contains(body, d)
                 /\ attr.value.v.variant = "RcData" =>
                        Len(body) = Len(v) + (IF d = QUOT /\ Contains(v, QUOT)
                                              THEN 4 * Cardinality({i \in 1..Len(v) : v[i] = QUOT})
                                              ELSE 0)

(* a CData value with '&' and "'" and no '"' was written with "&#38;" *)
C10_Witness ==
    /\ shown.some /\ attr.value.some
    /\ attr.value.v.variant = "CData"
    /\ Contains(attr.value.v.s, AMP) /\ Contains(attr.value.v.s, APOS)
    /\ ~Contains(attr.value.v.s, QUOT)
    /\ Len(shown.v) = Len(attr.name) + 3 + Len(attr.value.v.s)
                        + 4 * Cardinality({i \in 1..Len(attr.value.v.s) : attr.value.v.s[i] = AMP})

----------------------------------------------------------------------------
(* Properties of ParserConfig::parse_rcdata. *)

(* C11: with the default configuration the lookup declines every name, so  *)
(* an input with a named reference fails on its first one, and an input    *)
(* without one succeeds with its valid numeric references expanded; every  *)
(* successful result is Data::CData.                                       *)
C11_DefaultRcdata ==
    /\ config = DefaultConfig =>
        /\ \A j \in 1..Len(calls) : calls[j].reply = None
        /\ ret.some =>
            /\ NamedFrom(1) # <<>> =>
                    /\ ret.v.kind = "Err"
                    /\ ret.v.error.entity = NamedFrom(1)[1]
            /\ NamedFrom(1) = <<>> =>
                    /\ ret.v.kind = "Ok"
                    /\ ret.v.data.s = Rebuild(1, 1)
                    /\ \A k \in 1..Len(hits) :
                        /\ DecimalCharRef(k) =>
                            ReplacedByChar(k, 1 + Len(DecDigits(Rest(k))),
                                           ScalarCode(DecDigits(Rest(k)), 10))
                        /\ (HexCharRef(k, LOWER_X)
                                /\ NameRun(Rest(k), LOWER_X) = HexDigits(Rest(k), LOWER_X)) =>
                            ReplacedByChar(k, 2 + Len(HexDigits(Rest(k), LOWER_X)),
                                           ScalarCode(HexDigits(Rest(k), LOWER_X), 16))
    /\ (ret.some /\ ret.v.kind = "Ok") => ret.v.data.variant = "CData"

(* the default configuration expanded a character reference *)
C11_Witness ==
    /\ config = DefaultConfig
    /\ ret.some /\ ret.v.kind = "Ok"
    /\ \E k \in 1..Len(hits) : hits[k].ref.kind = "Char"
    /\ ret.v.data.variant = "CData" /\ ret.v.data.s # text

----------------------------------------------------------------------------
(* Properties of ParserConfig::trim. *)

SgmlWs == {32, 9, 13, 10}

Count(s, c) == Cardinality({i \in 1..Len(s) : s[i] = c})

(* r is s without a leading run of i and a trailing run of j characters *)
Stripped(s, r, i, j) ==
    /\ i + j <= Len(s)
    /\ r = SubSeq(s, i + 1, Len(s) - j)
    /\ \A k \in 1..i : s[k] \in SgmlWs
    /\ \A k \in (Len(s) - j + 1)..Len(s) : s[k] \in SgmlWs

(* C15: with trimming on, trim removes exactly the longest leading and     *)
(* trailing runs of space, tab, CR and LF, keeps the interior, and never   *)
(* removes a form feed or a no-break space; with trimming off the text is  *)
(* returned unchanged; trimming a trimmed text changes nothing.            *)
C15_TrimStripsSgmlWhitespace ==
    ret.some =>
        /\ config.trim_whitespace =>
            /\ \E i, j \in 0..Len(arg) : Stripped(arg, ret.v, i, j)
            /\ ret.v # <<>> => ret.v[1] \notin SgmlWs /\ ret.v[Len(ret.v)] \notin SgmlWs
            /\ ret.v = <<>> => \A k \in 1..Len(arg) : arg[k] \in SgmlWs
            /\ \A c \in {12, 160} : Count(ret.v, c) = Count(arg, c)
        /\ ~config.trim_whitespace => ret.v = arg
        /\ work = 2 => ret.v = arg

(* whitespace was stripped next to a form feed, and trimming again kept it *)
C15_Witness ==
    /\ config.trim_whitespace /\ work = 2
    /\ Len(ret.v) < Len(text)
    /\ ret.v # <<>> /\ ret.v[1] = 12

----------------------------------------------------------------------------
(* Properties of NameNormalization::normalize. *)

(* uppercase and lowercase characters, ASCII or not *)
IsUppercase(c) == c \in 65..90 \/ c = 201

IsLowercase(c) == c \in 97..122 \/ c = 233

CaseFolded(c) == IF IsUppercase(c) THEN c + 32 ELSE c

OnlyCaseDiffers(a, b) ==
    /\ Len(a) = Len(b)
    /\ \A i \in 1..Len(a) : CaseFolded(a[i]) = CaseFolded(b[i])

(* the name holds a character of the case the mode folds away *)
OppositeCase(mode, n, Upper(_), Lower(_)) ==
    \/ mode = "ToLowercase" /\ \E i \in 1..Len(n) : Upper(n[i])
    \/ mode = "ToUppercase" /\ \E i \in 1..Len(n) : Lower(n[i])

(* C14 as stated: the result holds no character of the opposite case, of  *)
(* any script; it differs from the input in case only; a name without an  *)
(* opposite-case character is returned as it is; normalize is idempotent. *)
C14_NoOppositeCaseLeft ==
    ret.some =>
        /\ ~OppositeCase(config.name_normalization, ret.v.s, IsUppercase, IsLowercase)
        /\ OnlyCaseDiffers(arg.s, ret.v.s)
        /\ ~OppositeCase(config.name_normalization, arg.s, IsUppercase, IsLowercase)
                => ret.v = arg
        /\ work = 2 => ret.v = arg

(* C14: the result holds no ASCII letter of the opposite case and differs *)
(* from the input only in the case of ASCII letters, other characters     *)
(* being kept; a name with no ASCII letter of the opposite case, and any  *)
(* name under Unchanged, is returned as the same value, borrowed if it    *)
(* was borrowed; normalizing the result again returns it as it is.        *)
C14_AsciiCaseFolded ==
    ret.some =>
        /\ ~OppositeCase(config.name_normalization, ret.v.s,
                         LAMBDA c : c \in 65..90, LAMBDA c : c \in 97..122)
        /\ OnlyCaseDiffers(arg.s, ret.v.s)
        /\ \A i \in 1..Len(arg.s) : arg.s[i] > 127 => ret.v.s[i] = arg.s[i]
        /\ ~OppositeCase(config.name_normalization, arg.s,
                         LAMBDA c : c \in 65..90, LAMBDA c : c \in 97..122)
                => ret.v = arg
        /\ work = 2 => ret.v = arg

(* 'B' was folded next to an uppercase E acute that stays, twice over *)
C14_Witness ==
    /\ config.name_normalization = "ToLowercase" /\ work = 2
    /\ \E i, j \in 1..Len(text) : text[i] = 66 /\ ret.v.s[i] = 98 /\ ret.v.s[j] = 201

----------------------------------------------------------------------------
(* Properties of MarkedSectionHandling::parse_keywords. *)

(* C12: in AcceptOnlyCharacterData mode a status is returned only for the  *)
(* single keyword CDATA (CData) or the single keyword RCDATA (RcData);     *)
(* any other keyword and any string of several keywords, a repeated CDATA  *)
(* included, gives None.                                                   *)
C12_OnlySingleCharacterData ==
    (ret.some /\ config.marked_section_handling = "AcceptOnlyCharacterData") =>
        /\ arg = <<"CDATA">> => ret.v = Some("CData")
        /\ arg = <<"RCDATA">> => ret.v = Some("RcData")
        /\ arg \notin {<<"CDATA">>, <<"RCDATA">>} => ret.v = None

(* the strict mode rejected a repeated CDATA *)
C12_Witness ==
    /\ config.marked_section_handling = "AcceptOnlyCharacterData"
    /\ arg = <<"CDATA", "CDATA">>
    /\ ret.some /\ ret.v = None

----------------------------------------------------------------------------
(* Properties of Parser::parse. *)

(* the constructs of the input that classify, all of them *)
Classifies(input) == \A i \in 1..Len(input) : input[i] \in {"tag", "text", "comment"}

----------------------------------------------------------------------------
(* Termination of expand_entities_with. *)

IsSuffix(s, t) == Len(s) <= Len(t) /\ s = Drop(t, Len(t) - Len(s))

(* one iteration: the text left to scan is a strictly shorter suffix of   *)
(* what it was, and a replacement goes to the end of the output as it is  *)
Iteration ==
    (pc = "scan" /\ pc' = "scan") =>
        /\ Len(remainder') < Len(remainder)
        /\ IsSuffix(remainder', remainder)
        /\ Len(calls') > Len(calls) =>
            /\ Len(calls') = Len(calls) + 1
            /\ calls'[Len(calls')].reply.some
            /\ IsSuffix(calls'[Len(calls')].reply.v, out')
            /\ Len(out') >= Len(out) + Len(calls'[Len(calls')].reply.v)

(* C16: every call returns a text or an error; each iteration of the loop *)
(* strictly shortens the text left to scan, which stays a suffix of the   *)
(* input, so that a replacement is written out without being scanned and  *)
(* there are never more lookups than triggers in the input.               *)
C16_Terminates ==
    /\ (pc = "scan") ~> Returned
    /\ [][Iteration]_vars
    /\ [](IsSuffix(remainder, text) /\ Len(calls) <= Cardinality(TriggerPositions))
    /\ [](Returned => result.kind \in {"Borrowed", "Owned", "Err"})

(* a replacement that refers to its own name was written out as it is, *)
(* after a single lookup                                               *)
C16_Witness ==
    /\ ReturnedOk
    /\ text = <<Trigger, LOWER_X>>
    /\ Len(calls) = 1 /\ calls[1].name = <<LOWER_X>>
    /\ calls[1].reply = Some(<<Trigger, LOWER_X, SEMI>>)
    /\ result.text = <<Trigger, LOWER_X, SEMI>>

====
